---------------------------- MODULE Spec2Model ----------------------------
(***************************************************************************)
(* Model of vosk_ws.py: a WebSocket server that feeds the binary frames of *)
(* each connection to a Vosk recognizer, tracks the last partial and final *)
(* transcription, and answers a zero-length binary frame with one JSON     *)
(* event {"text": ...}.                                                    *)
(*                                                                         *)
(* One coroutine runs per connection.  Its suspension points are the wait  *)
(* for the next inbound message (async for, line 151) and the awaited      *)
(* websocket.send (lines 75/80/85); everything between two suspension      *)
(* points runs atomically on the event loop.  At either suspension point   *)
(* the event loop may throw into the coroutine what is not an Exception    *)
(* (asyncio.CancelledError of a cancelled handler task, KeyboardInterrupt):*)
(* neither `except Exception` (lines 160, 185) catches it.                 *)
(***************************************************************************)
EXTENDS Naturals, Sequences, FiniteSets, TLC

\* ------------------------------------------------------------------ bounds

\* Most inbound messages the transport yields, over all connections.
MaxMsgs == 3

\* Most inbound messages when a single connection is served.
MaxSoloMsgs == 4

\* Most inbound messages, over all connections, when liveness is checked.
MaxLiveMsgs == 3

\* The connections served concurrently (websockets.serve, line 202).
Conns == {"c1", "c2"}

\* ----------------------------------------------------------- Python values

\* None, and a str value s.  A tracked variable holds one or the other.
None == <<>>
Str(s) == <<s>>

\* Python truthiness of an optional str: None and "" are falsy.
Truthy(v) == v # None /\ v # Str("")

Last(s) == s[Len(s)]

\* ------------------------------------------------------------------- JSON
\* A JSON text is a sequence of tokens.  A dict is the sequence of its
\* (key, value) members in insertion order; a value is None or a str.

Tok(t, v) == [t |-> t, v |-> v]
LBRACE == Tok("{", "")
RBRACE == Tok("}", "")
COLON == Tok(":", "")
COMMA == Tok(",", "")
NULL == Tok("null", "")
STR(s) == Tok("str", s)

Member(k, v) == [k |-> k, v |-> v]

DumpValue(v) == IF v = None THEN NULL ELSE STR(v[1])

RECURSIVE DumpMembers(_)
DumpMembers(d) ==
    IF d = <<>> THEN <<>>
    ELSE <<STR(d[1].k), COLON, DumpValue(d[1].v)>>
         \o (IF Len(d) > 1 THEN <<COMMA>> \o DumpMembers(Tail(d)) ELSE <<>>)

\* json.dumps of a dict.
json_dumps(d) == <<LBRACE>> \o DumpMembers(d) \o <<RBRACE>>

LoadValue(tok) == IF tok.t = "null" THEN None ELSE Str(tok.v)

\* json.loads of a text: the dict, or raised (json.JSONDecodeError).
json_loads(s) ==
    LET inner == IF Len(s) >= 2 THEN SubSeq(s, 2, Len(s) - 1) ELSE <<>>
        n == (Len(inner) + 1) \div 4
        framed == Len(s) >= 2 /\ s[1] = LBRACE /\ s[Len(s)] = RBRACE
        members ==
            \/ inner = <<>>
            \/ /\ (Len(inner) + 1) % 4 = 0
               /\ \A i \in 1..n :
                    /\ inner[4 * i - 3].t = "str"
                    /\ inner[4 * i - 2] = COLON
                    /\ inner[4 * i - 1].t \in {"str", "null"}
                    /\ (i < n => inner[4 * i] = COMMA)
    IN  IF framed /\ members
        THEN [raised |-> FALSE,
              value |-> IF inner = <<>> THEN <<>>
                        ELSE [i \in 1..n |->
                                Member(inner[4 * i - 3].v, LoadValue(inner[4 * i - 1]))]]
        ELSE [raised |-> TRUE, value |-> <<>>]

\* dict.get(key, default); a repeated key keeps its last value.
dict_get(d, key, default) ==
    LET hits == {i \in 1..Len(d) : d[i].k = key}
    IN  IF hits = {} THEN default
        ELSE d[CHOOSE i \in hits : \A j \in hits : j <= i].v

\* ------------------------------------------------------- inbound messages
\* A message is bytes (a binary frame) or str (a text frame).  An audio
\* frame carries one sample; the samples stand for what the audio holds.

Samples == {"a", "b", "sil", "noise", "bad", "garble"}

Bytes(data) == [type |-> "bytes", data |-> data]
Text(data) == [type |-> "str", data |-> data]

EndOfStream == Bytes(<<>>)
AudioFrames == {Bytes(<<s>>) : s \in Samples}
TextMessages == {Text(<<>>), Text(<<"x">>)}
Messages == {EndOfStream} \cup AudioFrames \cup TextMessages

\* ------------------------------------------------------------- recognizer
\* The engine behind KaldiRecognizer: speech samples extend the current
\* utterance, silence is an utterance boundary, noise changes nothing, a bad
\* sample makes the decoder raise, and after a garbled sample the interim
\* result is cut short.  fed is every chunk handed to AcceptWaveform.

KaldiRecognizer == [utt |-> "", fed |-> <<>>]

AcceptWaveform(r, data) ==
    LET s == data[1]
        r1 == [r EXCEPT !.fed = Append(@, data)]
    IN  CASE s = "bad" -> [raised |-> TRUE, ret |-> FALSE, rec |-> r1]
          [] s = "sil" -> [raised |-> FALSE, ret |-> TRUE, rec |-> r1]
          [] s \in {"a", "b"} ->
                [raised |-> FALSE, ret |-> FALSE,
                 rec |-> [r1 EXCEPT !.utt = IF @ = "" THEN s ELSE @ \o " " \o s]]
          [] OTHER -> [raised |-> FALSE, ret |-> FALSE, rec |-> r1]

\* Result(): the utterance as {"text": ...}; the utterance starts afresh.
Result(r) ==
    [text |-> json_dumps(<<Member("text", Str(r.utt))>>),
     rec |-> [r EXCEPT !.utt = ""]]

\* PartialResult(): the utterance so far as {"partial": ...}.
PartialResult(r) ==
    LET whole == json_dumps(<<Member("partial", Str(r.utt))>>)
    IN  IF r.fed # <<>> /\ Last(r.fed) = <<"garble">>
        THEN SubSeq(whole, 1, Len(whole) - 1)
        ELSE whole

\* ------------------------------------------------------------ the handlers

\* initialize_connection handing out one recognizer made on first use.
initialize_connection_shared(heap) ==
    IF heap = <<>> THEN [heap |-> <<KaldiRecognizer>>, rec |-> 1]
    ELSE [heap |-> heap, rec |-> 1]

\* initialize_connection: a new recognizer instance on the heap.
initialize_connection(heap) ==
    [heap |-> Append(heap, KaldiRecognizer), rec |-> Len(heap) + 1]

\* validate_message letting every message through.
validate_message_any(message) == TRUE

\* validate_message: only bytes are valid.
validate_message(message) == message.type = "bytes"

\* len(message) == 0, line 104.
IsEndOfStream(message) == Len(message.data) = 0

\* handle_end_of_stream with the two tests swapped: partial wins over final.
handle_end_of_stream_partial_first(partial, final) ==
    IF Truthy(partial) THEN <<json_dumps(<<Member("text", partial)>>)>>
    ELSE IF Truthy(final) THEN <<json_dumps(<<Member("text", final)>>)>>
    ELSE <<json_dumps(<<Member("text", Str(""))>>)>>

\* handle_end_of_stream whose last branch sends nothing.
handle_end_of_stream_silent(partial, final) ==
    IF Truthy(final) THEN <<json_dumps(<<Member("text", final)>>)>>
    ELSE IF Truthy(partial) THEN <<json_dumps(<<Member("text", partial)>>)>>
    ELSE <<>>

\* handle_end_of_stream: the messages it passes to websocket.send, in order.
handle_end_of_stream(partial, final) ==
    IF Truthy(final) THEN <<json_dumps(<<Member("text", final)>>)>>
    ELSE IF Truthy(partial) THEN <<json_dumps(<<Member("text", partial)>>)>>
    ELSE <<json_dumps(<<Member("text", Str(""))>>)>>

\* Line 106 returning the pair it was given.
FlushReturn_keep(partial, final) == [partial |-> partial, final |-> final]

\* Line 106 clearing partial alone.
FlushReturn_partial_only(partial, final) == [partial |-> None, final |-> final]

\* Line 106: the pair returned after the end-of-stream was handled.
FlushReturn(partial, final) == [partial |-> None, final |-> None]

\* Lines 117-120 without the test: any final text replaces final.
UpdateFinal_always(final, result_text) == result_text

\* Lines 117-120: a non-empty final text replaces final.
UpdateFinal(final, result_text) ==
    IF Truthy(result_text) THEN result_text ELSE final

\* Lines 126-128 without the test: any interim text replaces partial.
UpdatePartial_always(partial, partial_text) == partial_text

\* Lines 126-128: a non-empty interim text replaces partial.
UpdatePartial(partial, partial_text) ==
    IF Truthy(partial_text) THEN partial_text ELSE partial

\* A raising call after which the loop's pair is cleared.
Raised_reset(r, partial, final) ==
    [raised |-> TRUE, sends |-> <<>>, partial |-> None, final |-> None,
     rec |-> r]

\* A call raised inside process_audio_chunk: the assignment of line 158 does
\* not happen, so the loop's pair keeps its values; r is the recognizer as
\* the failing call left it.
Raised(r, partial, final) ==
    [raised |-> TRUE, sends |-> <<>>, partial |-> partial, final |-> final,
     rec |-> r]

Returned(r, sends, partial, final) ==
    [raised |-> FALSE, sends |-> sends, partial |-> partial, final |-> final,
     rec |-> r]

\* Lines 112-131 where a boundary that sets final also clears partial.
DecodeChunk_supersede(r, message, partial, final) ==
    LET aw == AcceptWaveform(r, message.data)
    IN  IF aw.raised THEN Raised(aw.rec, partial, final)
        ELSE IF aw.ret
        THEN LET res == Result(aw.rec)
                 result_json == json_loads(res.text)
                 result_text == dict_get(result_json.value, "text", Str(""))
             IN  IF result_json.raised THEN Raised(res.rec, partial, final)
                 ELSE IF Truthy(result_text)
                 THEN Returned(res.rec, <<>>, None, result_text)
                 ELSE Returned(res.rec, <<>>, partial, final)
        ELSE LET partial_json == json_loads(PartialResult(aw.rec))
             IN  IF partial_json.raised THEN Raised(aw.rec, partial, final)
                 ELSE Returned(aw.rec, <<>>,
                        UpdatePartial(partial,
                            dict_get(partial_json.value, "partial", Str(""))),
                        final)

\* Lines 112-131: a non-empty chunk goes to the recognizer and the pair is
\* updated from its result; nothing is sent.
DecodeChunk(r, message, partial, final) ==
    LET aw == AcceptWaveform(r, message.data)
    IN  IF aw.raised THEN Raised(aw.rec, partial, final)
        ELSE IF aw.ret
        THEN LET res == Result(aw.rec)
                 result_json == json_loads(res.text)
             IN  IF result_json.raised THEN Raised(res.rec, partial, final)
                 ELSE Returned(res.rec, <<>>, partial,
                        UpdateFinal(final,
                            dict_get(result_json.value, "text", Str(""))))
        ELSE LET partial_json == json_loads(PartialResult(aw.rec))
             IN  IF partial_json.raised THEN Raised(aw.rec, partial, final)
                 ELSE Returned(aw.rec, <<>>,
                        UpdatePartial(partial,
                            dict_get(partial_json.value, "partial", Str(""))),
                        final)

\* process_audio_chunk that also sends the interim text it holds after a
\* non-empty chunk.
process_audio_chunk_streaming(r, message, partial, final) ==
    IF IsEndOfStream(message)
    THEN Returned(r, handle_end_of_stream(partial, final), None, None)
    ELSE LET out == DecodeChunk(r, message, partial, final)
         IN  IF out.raised \/ out.partial = None THEN out
             ELSE [out EXCEPT !.sends =
                        <<json_dumps(<<Member("text", out.partial)>>)>>]

\* process_audio_chunk that closes the recognizer's utterance when it
\* handles the end-of-stream.
process_audio_chunk_final_result(r, message, partial, final) ==
    IF IsEndOfStream(message)
    THEN Returned(Result(r).rec, handle_end_of_stream(partial, final),
                  None, None)
    ELSE DecodeChunk(r, message, partial, final)

\* process_audio_chunk: the sends it awaits, then the pair it returns (or
\* raised), and the recognizer afterwards.
process_audio_chunk(r, message, partial, final) ==
    IF IsEndOfStream(message)
    THEN LET back == FlushReturn(partial, final)
         IN  Returned(r, handle_end_of_stream(partial, final),
                      back.partial, back.final)
    ELSE DecodeChunk(r, message, partial, final)

\* The exception is raised again: the loop is left.
ExceptHandler_exit == "closed"

\* A loop end that flushes what is still tracked.
CloseSends_flush(partial, final) ==
    IF Truthy(final) \/ Truthy(partial)
    THEN handle_end_of_stream(partial, final)
    ELSE <<>>

\* Lines 151 and 185-190: what is sent once the inbound sequence has ended.
\* The loop falls through and recognize only prints.
CloseSends(partial, final) == <<>>

\* Lines 160-165: the exception is logged and the loop goes on to wait for
\* the next message.
ExceptHandler == "recv"

\* ------------------------------------------------------------------ state

VARIABLES
    pc,        \* per connection: "new", "recv", "send" or "closed"
    rec,       \* per connection: its recognizer's place on the heap, 0 before
    recs,      \* the heap of recognizer instances
    partial,   \* per connection: main_message_loop's partial
    final,     \* per connection: main_message_loop's final
    pending,   \* per connection: messages process_audio_chunk has yet to send
    ret,       \* per connection: the pair process_audio_chunk returns after them
    sent,      \* per connection: messages the transport accepted
    taken,     \* per connection: inbound messages the transport yielded
    sendLog,   \* per connection: websocket.send calls, TRUE when it returned
    wrote,     \* per connection: for each call, whether the transport wrote
    caught     \* per connection: exceptions caught at line 160

vars ==
    <<pc, rec, recs, partial, final, pending, ret, sent, taken, sendLog, wrote,
      caught>>

NoPair == [partial |-> None, final |-> None]

Init ==
    /\ pc = [c \in Conns |-> "new"]
    /\ rec = [c \in Conns |-> 0]
    /\ recs = <<>>
    /\ partial = [c \in Conns |-> None]
    /\ final = [c \in Conns |-> None]
    /\ pending = [c \in Conns |-> <<>>]
    /\ ret = [c \in Conns |-> NoPair]
    /\ sent = [c \in Conns |-> <<>>]
    /\ taken = [c \in Conns |-> <<>>]
    /\ sendLog = [c \in Conns |-> <<>>]
    /\ wrote = [c \in Conns |-> <<>>]
    /\ caught = [c \in Conns |-> 0]

RECURSIVE SumLen(_, _)
SumLen(f, S) ==
    IF S = {} THEN 0
    ELSE LET c == CHOOSE x \in S : TRUE IN Len(f[c]) + SumLen(f, S \ {c})

\* Fewer than bound messages were yielded so far.
Budget(bound) == SumLen(taken, Conns) < bound

\* A loop that takes the next message while a send is still awaited.
AtReceive_busy(c) == pc[c] \in {"recv", "send"}

\* The coroutine of c waits at `async for message in websocket`, line 151.
AtReceive(c) == pc[c] = "recv"

\* --------------------------------------------------------------- actions

\* recognize up to the first wait of the loop: lines 180-184, 20-39, 144-151.
Connect(c) ==
    /\ pc[c] = "new"
    /\ LET made == initialize_connection(recs)
       IN  /\ recs' = made.heap
           /\ rec' = [rec EXCEPT ![c] = made.rec]
    /\ partial' = [partial EXCEPT ![c] = None]
    /\ final' = [final EXCEPT ![c] = None]
    /\ pc' = [pc EXCEPT ![c] = "recv"]
    /\ UNCHANGED <<pending, ret, sent, taken, sendLog, wrote, caught>>

\* A message that fails validate_message: `continue`, lines 154-155.
SkipInvalid(c, m) ==
    /\ AtReceive(c)
    /\ ~validate_message(m)
    /\ taken' = [taken EXCEPT ![c] = Append(@, m)]
    /\ UNCHANGED <<pc, rec, recs, partial, final, pending, ret, sent, sendLog,
                   wrote, caught>>

\* Line 158 on a valid message, up to the first awaited send if there is
\* one, else to the end of the iteration: the assignment of the returned
\* pair, or the handler of line 160 when a call raised.
Process(c, m) ==
    /\ AtReceive(c)
    /\ validate_message(m)
    /\ taken' = [taken EXCEPT ![c] = Append(@, m)]
    /\ LET out == process_audio_chunk(recs[rec[c]], m, partial[c], final[c])
       IN  /\ recs' = [recs EXCEPT ![rec[c]] = out.rec]
           /\ IF out.raised
              THEN /\ caught' = [caught EXCEPT ![c] = @ + 1]
                   /\ partial' = [partial EXCEPT ![c] = out.partial]
                   /\ final' = [final EXCEPT ![c] = out.final]
                   /\ pc' = [pc EXCEPT ![c] = ExceptHandler]
                   /\ UNCHANGED <<pending, ret>>
              ELSE IF out.sends = <<>>
              THEN /\ partial' = [partial EXCEPT ![c] = out.partial]
                   /\ final' = [final EXCEPT ![c] = out.final]
                   /\ UNCHANGED <<pc, pending, ret, caught>>
              ELSE /\ pending' = [pending EXCEPT ![c] = out.sends]
                   /\ ret' = [ret EXCEPT ![c] =
                                [partial |-> out.partial, final |-> out.final]]
                   /\ pc' = [pc EXCEPT ![c] = "send"]
                   /\ UNCHANGED <<partial, final, caught>>
    /\ UNCHANGED <<rec, sent, sendLog, wrote>>

\* A zero-length chunk: process_audio_chunk calls handle_end_of_stream.
BeginFlush(c, m) == IsEndOfStream(m) /\ Process(c, m)

\* A non-empty chunk: lines 112-131.
AudioFrame(c, m) == ~IsEndOfStream(m) /\ Process(c, m)

\* The awaited send returns.  After the last one process_audio_chunk
\* returns and line 158 assigns the pair.
SendReturns(c) ==
    /\ pc[c] = "send"
    /\ sent' = [sent EXCEPT ![c] = Append(@, Head(pending[c]))]
    /\ sendLog' = [sendLog EXCEPT ![c] = Append(@, TRUE)]
    /\ wrote' = [wrote EXCEPT ![c] = Append(@, TRUE)]
    /\ pending' = [pending EXCEPT ![c] = Tail(@)]
    /\ IF Len(pending[c]) = 1
       THEN /\ partial' = [partial EXCEPT ![c] = ret[c].partial]
            /\ final' = [final EXCEPT ![c] = ret[c].final]
            /\ ret' = [ret EXCEPT ![c] = NoPair]
            /\ pc' = [pc EXCEPT ![c] = "recv"]
       ELSE UNCHANGED <<partial, final, ret, pc>>
    /\ UNCHANGED <<rec, recs, taken, caught>>

\* The awaited send raises an Exception: it leaves handle_end_of_stream and
\* process_audio_chunk, line 158 assigns nothing, line 160 catches it.  The
\* transport raises either without writing the message or after it wrote
\* it, so the event may have left although the pair is not reset.
SendRaises(c) ==
    /\ pc[c] = "send"
    /\ \E written \in BOOLEAN :
            /\ wrote' = [wrote EXCEPT ![c] = Append(@, written)]
            /\ sent' = [sent EXCEPT ![c] =
                            IF written THEN Append(@, Head(pending[c])) ELSE @]
    /\ sendLog' = [sendLog EXCEPT ![c] = Append(@, FALSE)]
    /\ pending' = [pending EXCEPT ![c] = <<>>]
    /\ ret' = [ret EXCEPT ![c] = NoPair]
    /\ caught' = [caught EXCEPT ![c] = @ + 1]
    /\ pc' = [pc EXCEPT ![c] = ExceptHandler]
    /\ LET out == Raised(recs[rec[c]], partial[c], final[c])
       IN  /\ partial' = [partial EXCEPT ![c] = out.partial]
           /\ final' = [final EXCEPT ![c] = out.final]
    /\ UNCHANGED <<rec, recs, taken>>

\* The awaited send raises what is not an Exception (the handler task was
\* cancelled while suspended in it, or an interrupt arrived): lines 160 and
\* 185 do not catch it, only the finally clause of line 189 runs, and the
\* exception leaves recognize.  The locals partial and final are not
\* assigned.  The raise reaches the coroutine either before the transport
\* wrote the message or after it had completed the write, so the event may
\* have left although the call did not return.
SendCancelled(c) ==
    /\ pc[c] = "send"
    /\ \E written \in BOOLEAN :
            /\ wrote' = [wrote EXCEPT ![c] = Append(@, written)]
            /\ sent' = [sent EXCEPT ![c] =
                            IF written THEN Append(@, Head(pending[c])) ELSE @]
    /\ sendLog' = [sendLog EXCEPT ![c] = Append(@, FALSE)]
    /\ pending' = [pending EXCEPT ![c] = <<>>]
    /\ ret' = [ret EXCEPT ![c] = NoPair]
    /\ pc' = [pc EXCEPT ![c] = "closed"]
    /\ UNCHANGED <<rec, recs, partial, final, taken, caught>>

\* The same while the coroutine waits for the next message, line 151: the
\* wait is outside the try of line 152, and line 185 does not catch it.
WaitCancelled(c) ==
    /\ AtReceive(c)
    /\ pc' = [pc EXCEPT ![c] = "closed"]
    /\ UNCHANGED <<rec, recs, partial, final, pending, ret, sent, taken,
                   sendLog, wrote, caught>>

\* The inbound sequence ends: the loop exits and recognize returns.
EndOfInbound(c) ==
    /\ AtReceive(c)
    /\ pc' = [pc EXCEPT ![c] = "closed"]
    /\ sent' = [sent EXCEPT ![c] = @ \o CloseSends(partial[c], final[c])]
    /\ UNCHANGED <<rec, recs, partial, final, pending, ret, taken, sendLog,
                   wrote, caught>>

Next ==
    \E c \in Conns :
        \/ Connect(c)
        \/ \E m \in Messages : Budget(MaxMsgs) /\ SkipInvalid(c, m)
        \/ \E m \in Messages : Budget(MaxMsgs) /\ BeginFlush(c, m)
        \/ \E m \in Messages : Budget(MaxMsgs) /\ AudioFrame(c, m)
        \/ SendReturns(c)
        \/ SendRaises(c)
        \/ SendCancelled(c)
        \/ WaitCancelled(c)
        \/ EndOfInbound(c)

Spec == Init /\ [][Next]_vars

\* A single connection is served, with longer inbound sequences.
SoloNext ==
    \/ Connect("c1")
    \/ \E m \in Messages : Budget(MaxSoloMsgs) /\ SkipInvalid("c1", m)
    \/ \E m \in Messages : Budget(MaxSoloMsgs) /\ BeginFlush("c1", m)
    \/ \E m \in Messages : Budget(MaxSoloMsgs) /\ AudioFrame("c1", m)
    \/ SendReturns("c1")
    \/ SendRaises("c1")
    \/ SendCancelled("c1")
    \/ WaitCancelled("c1")
    \/ EndOfInbound("c1")

SoloSpec == Init /\ [][SoloNext]_vars

\* One step of connection c over a transport that accepts every write, its
\* handler task being left to run: nothing cancels or interrupts it.
LiveStep(c) ==
    \/ Connect(c)
    \/ \E m \in Messages : Budget(MaxLiveMsgs) /\ SkipInvalid(c, m)
    \/ \E m \in Messages : Budget(MaxLiveMsgs) /\ BeginFlush(c, m)
    \/ \E m \in Messages : Budget(MaxLiveMsgs) /\ AudioFrame(c, m)
    \/ SendReturns(c)
    \/ EndOfInbound(c)

LiveNext == \E c \in Conns : LiveStep(c)

\* The event loop runs every coroutine that can run, and the transport
\* completes every write it was given.
LiveSpec ==
    /\ Init
    /\ [][LiveNext]_vars
    /\ \A c \in Conns : WF_vars(Connect(c)) /\ WF_vars(SendReturns(c))

\* One step of connection c over a transport that may refuse a write, its
\* handler task being left to run: nothing cancels or interrupts it.
TermStep(c) ==
    \/ Connect(c)
    \/ \E m \in Messages : Budget(MaxLiveMsgs) /\ SkipInvalid(c, m)
    \/ \E m \in Messages : Budget(MaxLiveMsgs) /\ BeginFlush(c, m)
    \/ \E m \in Messages : Budget(MaxLiveMsgs) /\ AudioFrame(c, m)
    \/ SendReturns(c)
    \/ SendRaises(c)
    \/ EndOfInbound(c)

TermNext == \E c \in Conns : TermStep(c)

\* The event loop runs every coroutine that can run, every awaited send
\* returns or raises, and every inbound sequence is finite: the transport
\* ends it once it has no message left to yield.
TermSpec ==
    /\ Init
    /\ [][TermNext]_vars
    /\ \A c \in Conns :
            /\ WF_vars(Connect(c))
            /\ WF_vars(SendReturns(c) \/ SendRaises(c))
            /\ WF_vars(EndOfInbound(c))

\* ------------------------------------------------- reading the histories

IsBinary(m) == m.type = "bytes"
IsZeroLength(m) == IsBinary(m) /\ m.data = <<>>
IsAudio(m) == IsBinary(m) /\ m.data # <<>>
IsTrue(b) == b

Range(s) == {s[i] : i \in 1..Len(s)}
MaxOf(S) == CHOOSE x \in S : \A y \in S : y <= x

\* How many zero-length binary frames ms holds.
NumEOS(ms) == Len(SelectSeq(ms, IsZeroLength))

\* ms[i] is the k-th zero-length binary frame of ms.
EosOrdinal(ms, i) == NumEOS(SubSeq(ms, 1, i))

\* ms[i] is a zero-length binary frame whose event the transport accepted.
Flushed(ms, log, i) ==
    /\ IsZeroLength(ms[i])
    /\ EosOrdinal(ms, i) <= Len(log)
    /\ log[EosOrdinal(ms, i)]

\* The place of the last flush before ms[n], 0 when there was none.
LastFlush(ms, log, n) ==
    MaxOf({0} \cup {i \in 1..(n - 1) : Flushed(ms, log, i)})

\* The place of the last binary frame before ms[n], 0 when there was none.
LastBinary(ms, n) == MaxOf({0} \cup {i \in 1..(n - 1) : IsBinary(ms[i])})

\* What the engine reports for one chunk: a boundary with its text, an
\* interim text, or a failure.
Feed(r, data) ==
    LET aw == AcceptWaveform(r, data)
    IN  IF aw.raised THEN [kind |-> "error", text |-> "", rec |-> aw.rec]
        ELSE IF aw.ret
        THEN [kind |-> "final", text |-> aw.rec.utt, rec |-> Result(aw.rec).rec]
        ELSE IF json_loads(PartialResult(aw.rec)).raised
        THEN [kind |-> "error", text |-> "", rec |-> aw.rec]
        ELSE [kind |-> "interim", text |-> aw.rec.utt, rec |-> aw.rec]

\* What a recognizer fed the audio frames of ms reports, message by message.
RECURSIVE Observed(_, _)
Observed(r, ms) ==
    IF ms = <<>> THEN <<>>
    ELSE IF IsAudio(Head(ms))
    THEN LET f == Feed(r, Head(ms).data)
         IN  <<[kind |-> f.kind, text |-> f.text]>> \o Observed(f.rec, Tail(ms))
    ELSE <<[kind |-> "none", text |-> ""]>> \o Observed(r, Tail(ms))

\* The non-empty texts of one kind obtained after the last flush before ms[n].
Obtained(ms, log, n, kind) ==
    LET obs == Observed(KaldiRecognizer, ms)
    IN  {j \in (LastFlush(ms, log, n) + 1)..(n - 1) :
            obs[j].kind = kind /\ obs[j].text # ""}

\* The text the end-of-stream frame ms[n] is to be answered with.
ExpectedText(ms, log, n) ==
    LET obs == Observed(KaldiRecognizer, ms)
        finals == Obtained(ms, log, n, "final")
        interims == Obtained(ms, log, n, "interim")
    IN  IF finals # {} THEN obs[MaxOf(finals)].text
        ELSE IF interims # {} THEN obs[MaxOf(interims)].text
        ELSE ""

\* The value of "text" in an outbound message, as the client parses it.
EventText(msg) == dict_get(json_loads(msg).value, "text", None)

\* How many of the first k send calls log marks TRUE.
AcceptedBefore(log, k) == Len(SelectSeq(SubSeq(log, 1, k), IsTrue))

\* ----------------------------------------------------------------- claims

\* C1: the event answering a zero-length binary frame carries the last
\* non-empty final text obtained since the previous flush, else the last
\* non-empty interim text obtained since then, else the empty string.  It
\* is read off the inbound history alone, for every event the transport
\* wrote, whether or not its send call returned, and for the one being sent.
FlushFallbackOrdering ==
    \A c \in Conns : \A n \in 1..Len(taken[c]) :
        IsZeroLength(taken[c][n]) =>
            LET k == EosOrdinal(taken[c], n)
                want == Str(ExpectedText(taken[c], sendLog[c], n))
            IN  /\ (k <= Len(sendLog[c]) /\ sendLog[c][k]) => wrote[c][k]
                /\ (k <= Len(wrote[c]) /\ wrote[c][k]) =>
                       EventText(sent[c][AcceptedBefore(wrote[c], k)]) = want
                /\ (k > Len(sendLog[c])) =>
                       /\ pc[c] = "send"
                       /\ pending[c] # <<>>
                       /\ EventText(Head(pending[c])) = want

\* A final text was obtained, a different interim text after it, and the
\* event being sent carries the final text.
FlushFallbackOrderingWitness ==
    \E c \in Conns :
        /\ pc[c] = "send"
        /\ LET n == Len(taken[c])
               obs == Observed(KaldiRecognizer, taken[c])
           IN  \E i \in Obtained(taken[c], sendLog[c], n, "final") :
               \E j \in Obtained(taken[c], sendLog[c], n, "interim") :
                   /\ i < j
                   /\ obs[i].text # obs[j].text
                   /\ EventText(Head(pending[c])) = Str(obs[i].text)

\* C2: once a flush event was emitted both tracked values are unset, and
\* they stay so while only non-byte messages arrive; a zero-length binary
\* frame arriving then is answered with the empty text.
ResetAfterFlush ==
    \A c \in Conns :
        LET ms == taken[c]
            n == Len(ms)
        IN  /\ ( /\ pc[c] \in {"recv", "closed"}
                 /\ LastBinary(ms, n + 1) > 0
                 /\ Flushed(ms, sendLog[c], LastBinary(ms, n + 1)) )
                => partial[c] = None /\ final[c] = None
            /\ ( /\ pc[c] = "send"
                 /\ LastBinary(ms, n) > 0
                 /\ Flushed(ms, sendLog[c], LastBinary(ms, n)) )
                => EventText(Head(pending[c])) = Str("")

\* A first flush carried a text, a non-byte message followed it, and the
\* second zero-length frame is being answered.
ResetAfterFlushWitness ==
    \E c \in Conns :
        LET ms == taken[c]
            n == Len(ms)
        IN  /\ pc[c] = "send"
            /\ n >= 3
            /\ ~IsBinary(ms[n - 1])
            /\ LastBinary(ms, n) > 0
            /\ Flushed(ms, sendLog[c], LastBinary(ms, n))
            /\ sent[c] # <<>>
            /\ EventText(Last(sent[c])) # Str("")
            /\ EventText(Head(pending[c])) = Str("")

\* An outbound message is an object whose one member is "text" with a
\* string value.
IsTextEvent(msg) ==
    LET d == json_loads(msg)
    IN  /\ ~d.raised
        /\ Len(d.value) = 1
        /\ d.value[1].k = "text"
        /\ d.value[1].v # None

\* C3: every zero-length binary frame taken has caused exactly one send
\* call, finished or in progress, and every message given to the transport
\* is an object with the single member "text" holding a string.
ExactlyOneEventPerEndOfStream ==
    \A c \in Conns :
        /\ Len(sendLog[c]) + Len(pending[c]) = NumEOS(taken[c])
        /\ Len(pending[c]) = (IF pc[c] = "send" THEN 1 ELSE 0)
        /\ \A msg \in Range(sent[c]) \cup Range(pending[c]) : IsTextEvent(msg)

\* Two end-of-stream frames were answered, one with a text and one with the
\* empty string.
ExactlyOneEventPerEndOfStreamWitness ==
    \E c \in Conns :
        /\ pc[c] = "recv"
        /\ Len(sent[c]) = 2
        /\ NumEOS(taken[c]) = 2
        /\ EventText(sent[c][1]) # Str("")
        /\ EventText(sent[c][2]) = Str("")

\* C4: a non-empty audio frame never causes a send, whatever the recognizer
\* reports for it, and the events sent never outnumber the zero-length
\* binary frames taken.
NoPartialStreaming ==
    /\ [](\A c \in Conns : Len(sent[c]) <= NumEOS(taken[c]))
    /\ [][\A c \in Conns :
            (taken'[c] # taken[c] /\ IsAudio(Last(taken'[c]))) =>
                /\ sent'[c] = sent[c]
                /\ sendLog'[c] = sendLog[c]
                /\ pending'[c] = <<>>
                /\ pc'[c] # "send"]_vars

\* Audio frames set both tracked values, and nothing was given to the
\* transport.
NoPartialStreamingWitness ==
    \E c \in Conns :
        /\ partial[c] # None
        /\ final[c] # None
        /\ pc[c] = "recv"
        /\ sent[c] = <<>>
        /\ sendLog[c] = <<>>

\* C6, as claimed: whatever is raised while a message is processed leaves
\* the loop waiting for the next message, and the loop is left only from
\* that wait, by a step that takes no message and catches nothing.
ErrorContainment ==
    [][\A c \in Conns :
        /\ (caught'[c] # caught[c]) => (pc'[c] = "recv" /\ AtReceive(c)')
        /\ (pc'[c] = "closed" /\ pc[c] # "closed") =>
                /\ pc[c] = "recv"
                /\ taken'[c] = taken[c]
                /\ caught'[c] = caught[c]]_vars

\* C6, amended: an Exception raised while a message is processed is caught
\* and leaves the loop waiting for the next message.  The loop is left in
\* two ways only, neither of which takes a message or catches anything:
\* from the wait for the next message, with nothing sent, or from an
\* awaited send by a raise that is not an Exception, which is logged as a
\* send that did not return, whether or not the transport wrote the event.
ExceptionContainment ==
    [][\A c \in Conns :
        /\ (caught'[c] # caught[c]) =>
                /\ caught'[c] = caught[c] + 1
                /\ pc'[c] = "recv"
                /\ AtReceive(c)'
        /\ (pc'[c] = "closed" /\ pc[c] # "closed") =>
                /\ taken'[c] = taken[c]
                /\ caught'[c] = caught[c]
                /\ \/ /\ pc[c] = "recv"
                      /\ sendLog'[c] = sendLog[c]
                      /\ sent'[c] = sent[c]
                   \/ /\ pc[c] = "send"
                      /\ sendLog'[c] = Append(sendLog[c], FALSE)
                      /\ pending'[c] = <<>>
                      /\ sent'[c] \in {sent[c], Append(sent[c], Head(pending[c]))}]_vars

\* A frame failed, and a later frame of the same connection was decoded.
ExceptionContainmentWitness ==
    \E c \in Conns :
        LET obs == Observed(KaldiRecognizer, taken[c])
        IN  /\ caught[c] >= 1
            /\ \E i, j \in 1..Len(taken[c]) :
                    /\ i < j
                    /\ obs[i].kind = "error"
                    /\ obs[j].kind = "interim"
                    /\ obs[j].text # ""
                    /\ partial[c] = Str(obs[j].text)

\* C7: when the recognizer fails on a non-empty audio frame the tracked
\* pair keeps its values, nothing is sent, and the loop waits for the next
\* message.
DecodeFailureKeepsState ==
    [][\A c \in Conns :
        ( /\ taken'[c] # taken[c]
          /\ IsAudio(Last(taken'[c]))
          /\ Last(Observed(KaldiRecognizer, taken'[c])).kind = "error" ) =>
            /\ partial'[c] = partial[c]
            /\ final'[c] = final[c]
            /\ sent'[c] = sent[c]
            /\ sendLog'[c] = sendLog[c]
            /\ pending'[c] = <<>>
            /\ caught'[c] = caught[c] + 1
            /\ pc'[c] = "recv"]_vars

\* The last frame failed in the parsing of the interim result while both
\* tracked values were set.
DecodeFailureKeepsStateWitness ==
    \E c \in Conns :
        /\ taken[c] # <<>>
        /\ Last(taken[c]) = Bytes(<<"garble">>)
        /\ partial[c] # None
        /\ final[c] # None
        /\ caught[c] = 1

\* The state of a connection served alone.
Alone == [partial |-> None, final |-> None, rec |-> KaldiRecognizer,
          sent |-> <<>>]

\* What became of the send calls of c: whether each returned, and whether
\* the transport wrote its message.
SendOutcomes(c) ==
    [k \in 1..Len(sendLog[c]) |->
        [returned |-> sendLog[c][k], written |-> wrote[c][k]]]

\* The state a connection served alone reaches on the inbound messages ms
\* when the transport answers its sends as log says.
RECURSIVE RunAlone(_, _, _)
RunAlone(st, ms, log) ==
    IF ms = <<>> THEN st
    ELSE IF ~validate_message(Head(ms)) THEN RunAlone(st, Tail(ms), log)
    ELSE LET out == process_audio_chunk(st.rec, Head(ms), st.partial, st.final)
             kept == [st EXCEPT !.rec = out.rec]
             done == [kept EXCEPT !.partial = out.partial, !.final = out.final]
         IN  IF out.raised \/ out.sends = <<>>
             THEN RunAlone(done, Tail(ms), log)
             ELSE IF log = <<>> THEN kept
             ELSE LET after == IF Head(log).returned THEN done ELSE kept
                      wire == IF Head(log).written
                              THEN Append(st.sent, Head(out.sends))
                              ELSE st.sent
                  IN  RunAlone([after EXCEPT !.sent = wire], Tail(ms), Tail(log))

\* What connection c holds.
Tracked(c) ==
    [partial |-> partial[c], final |-> final[c], rec |-> recs[rec[c]],
     sent |-> sent[c]]

\* C8: taking a message that is not bytes changes nothing but the inbound
\* history; what a connection holds is what its binary frames alone lead
\* to; and a send is only ever started by a zero-length binary frame.
InvalidMessagesInert ==
    /\ [](\A c \in Conns : pc[c] # "new" =>
            Tracked(c) = RunAlone(Alone, SelectSeq(taken[c], IsBinary),
                                  SendOutcomes(c)))
    /\ [][\A c \in Conns :
            /\ (taken'[c] # taken[c] /\ ~IsBinary(Last(taken'[c]))) =>
                    /\ pc'[c] = pc[c]
                    /\ partial'[c] = partial[c]
                    /\ final'[c] = final[c]
                    /\ pending'[c] = pending[c]
                    /\ sent'[c] = sent[c]
                    /\ sendLog'[c] = sendLog[c]
                    /\ caught'[c] = caught[c]
                    /\ recs' = recs
            /\ (pc'[c] = "send" /\ pc[c] # "send") =>
                    /\ taken'[c] # taken[c]
                    /\ IsZeroLength(Last(taken'[c]))]_vars

\* A zero-length text message was taken between two audio frames that set
\* the two tracked values.
InvalidMessagesInertWitness ==
    \E c \in Conns :
        /\ Len(taken[c]) = 3
        /\ IsAudio(taken[c][1])
        /\ taken[c][2] = Text(<<>>)
        /\ IsAudio(taken[c][3])
        /\ partial[c] # None
        /\ final[c] # None

\* C9: every connection has a recognizer of its own, and what it holds and
\* has sent is what it would hold and have sent had it been served alone
\* on the same inbound messages and the same answers of its transport.
NoCrossSessionLeakage ==
    /\ \A c, d \in Conns :
            (c # d /\ pc[c] # "new" /\ pc[d] # "new") => rec[c] # rec[d]
    /\ \A c \in Conns : pc[c] # "new" =>
            Tracked(c) = RunAlone(Alone, taken[c], SendOutcomes(c))

\* Both connections fed audio to their recognizers and one of them has
\* flushed a text.
NoCrossSessionLeakageWitness ==
    \E c, d \in Conns :
        /\ c # d
        /\ pc[c] # "new"
        /\ pc[d] # "new"
        /\ recs[rec[c]].fed # <<>>
        /\ recs[rec[d]].fed # <<>>
        /\ sent[c] # <<>>
        /\ EventText(sent[c][1]) # Str("")

\* C5: over a transport that accepts every write, a zero-length binary
\* frame that was taken is eventually answered by an event, and no further
\* message of the connection is taken before that.
EndOfStreamDelivered ==
    /\ \A c \in Conns :
            (Len(sent[c]) < NumEOS(taken[c])) ~> (Len(sent[c]) = NumEOS(taken[c]))
    /\ [][\A c \in Conns :
            (taken'[c] # taken[c]) => Len(sent[c]) = NumEOS(taken[c])]_vars

\* An end-of-stream frame was answered with a text, and a later message of
\* the connection was taken.
EndOfStreamDeliveredWitness ==
    \E c \in Conns :
        /\ Len(taken[c]) >= 3
        /\ IsZeroLength(taken[c][2])
        /\ Len(sent[c]) = 1
        /\ EventText(sent[c][1]) # Str("")

\* The chunks of the audio frames of ms, in order.
AudioOf(ms) ==
    LET frames == SelectSeq(ms, IsAudio)
    IN  [i \in 1..Len(frames) |-> frames[i].data]

\* C10: the recognizer of a connection was fed exactly the non-empty binary
\* frames taken, in the order taken, and a message is taken only when the
\* one before it is done with: no send is awaited and every end-of-stream
\* frame before it has had its send call answered.
StrictOrdering ==
    /\ [](\A c \in Conns : pc[c] # "new" =>
            recs[rec[c]].fed = AudioOf(taken[c]))
    /\ [][\A c \in Conns :
            (taken'[c] # taken[c]) =>
                /\ pc[c] = "recv"
                /\ pending[c] = <<>>
                /\ Len(sendLog[c]) = NumEOS(taken[c])
                /\ Len(taken'[c]) = Len(taken[c]) + 1
                /\ SubSeq(taken'[c], 1, Len(taken[c])) = taken[c]]_vars

\* Two different audio frames were fed around an answered end-of-stream.
StrictOrderingWitness ==
    \E c \in Conns :
        /\ Len(taken[c]) = 3
        /\ IsAudio(taken[c][1])
        /\ IsZeroLength(taken[c][2])
        /\ IsAudio(taken[c][3])
        /\ taken[c][1] # taken[c][3]
        /\ Len(sent[c]) = 1
        /\ Len(recs[rec[c]].fed) = 2

\* C11: every connection's loop ends; by then every message taken was
\* processed; and neither the step that ends the loop nor any step after it
\* gives anything to the transport or changes what the connection holds, so
\* text that was tracked but never flushed is dropped.
LoopTermination ==
    /\ \A c \in Conns : <>(pc[c] = "closed")
    /\ [](\A c \in Conns : pc[c] = "closed" =>
            /\ pending[c] = <<>>
            /\ Len(sendLog[c]) = NumEOS(taken[c])
            /\ recs[rec[c]].fed = AudioOf(taken[c]))
    /\ [][\A c \in Conns : pc'[c] = "closed" =>
            /\ pc[c] \in {"recv", "closed"}
            /\ sent'[c] = sent[c]
            /\ sendLog'[c] = sendLog[c]
            /\ taken'[c] = taken[c]
            /\ partial'[c] = partial[c]
            /\ final'[c] = final[c]]_vars

\* A loop has ended holding a text that no end-of-stream frame ever asked
\* for, and nothing was sent.
LoopTerminationWitness ==
    \E c \in Conns :
        /\ pc[c] = "closed"
        /\ Len(taken[c]) >= 2
        /\ Truthy(partial[c])
        /\ Truthy(final[c])
        /\ NumEOS(taken[c]) = 0
        /\ sent[c] = <<>>

\* C12: a tracked value goes from set to unset only in the step that
\* completes the answer to a zero-length binary frame, and that step leaves
\* both values unset; no other step unsets either of them.
JointResetOnlyAtEndOfStream ==
    [][\A c \in Conns :
        ( \/ (partial[c] # None /\ partial'[c] = None)
          \/ (final[c] # None /\ final'[c] = None) ) =>
            /\ pc[c] = "send"
            /\ IsZeroLength(Last(taken[c]))
            /\ taken'[c] = taken[c]
            /\ Len(sent'[c]) = Len(sent[c]) + 1
            /\ partial'[c] = None
            /\ final'[c] = None]_vars

\* Both values had been set by audio frames when a zero-length binary frame
\* was answered, and both are unset now.
JointResetOnlyAtEndOfStreamWitness ==
    \E c \in Conns :
        LET ms == taken[c]
            n == Len(ms)
        IN  /\ pc[c] = "recv"
            /\ n >= 3
            /\ Flushed(ms, sendLog[c], n)
            /\ Obtained(ms, sendLog[c], n, "final") # {}
            /\ Obtained(ms, sendLog[c], n, "interim") # {}
            /\ partial[c] = None
            /\ final[c] = None

\* C13: a non-empty audio frame for which the recognizer reports a boundary
\* with text t sets final to t when t is non-empty and leaves it otherwise;
\* one for which it reports interim text p sets partial to p when p is
\* non-empty and leaves it otherwise, and leaves final.
UpdateRule ==
    [][\A c \in Conns :
        (taken'[c] # taken[c] /\ IsAudio(Last(taken'[c]))) =>
            LET f == Feed(recs[rec[c]], Last(taken'[c]).data)
            IN  /\ (f.kind = "final") =>
                        final'[c] = (IF f.text # "" THEN Str(f.text) ELSE final[c])
                /\ (f.kind = "interim") =>
                        /\ partial'[c] =
                             (IF f.text # "" THEN Str(f.text) ELSE partial[c])
                        /\ final'[c] = final[c]]_vars

\* The last frame was a boundary with empty text and final kept the text
\* of an earlier boundary; an interim text is held too.
UpdateRuleWitness ==
    \E c \in Conns :
        LET obs == Observed(KaldiRecognizer, taken[c])
        IN  /\ Len(taken[c]) >= 3
            /\ Last(obs).kind = "final"
            /\ Last(obs).text = ""
            /\ Truthy(final[c])
            /\ Truthy(partial[c])

\* C14, as claimed: whenever partial is set it is the last non-empty
\* interim text obtained since the last flush, and no boundary that set
\* final came after that interim text.
PartialNeverSuperseded ==
    \A c \in Conns :
        LET ms == taken[c]
            obs == Observed(KaldiRecognizer, ms)
            interims == Obtained(ms, sendLog[c], Len(ms) + 1, "interim")
            finals == Obtained(ms, sendLog[c], Len(ms) + 1, "final")
        IN  partial[c] # None =>
                /\ interims # {}
                /\ partial[c] = Str(obs[MaxOf(interims)].text)
                /\ \A j \in finals : j < MaxOf(interims)

\* C14, amended: partial is the last non-empty interim text obtained since
\* the last flush, unset when there was none, whether or not a boundary
\* has set final since; a boundary frame leaves partial as it was.
PartialIsLastInterim ==
    \A c \in Conns :
        LET ms == taken[c]
            obs == Observed(KaldiRecognizer, ms)
            interims == Obtained(ms, sendLog[c], Len(ms) + 1, "interim")
        IN  partial[c] =
                (IF interims = {} THEN None ELSE Str(obs[MaxOf(interims)].text))

\* A boundary set final after the interim text that partial still holds.
PartialIsLastInterimWitness ==
    \E c \in Conns :
        LET ms == taken[c]
            obs == Observed(KaldiRecognizer, ms)
            interims == Obtained(ms, sendLog[c], Len(ms) + 1, "interim")
            finals == Obtained(ms, sendLog[c], Len(ms) + 1, "final")
        IN  /\ interims # {}
            /\ finals # {}
            /\ MaxOf(interims) < MaxOf(finals)
            /\ partial[c] = Str(obs[MaxOf(interims)].text)
            /\ final[c] = Str(obs[MaxOf(finals)].text)

\* The place of the last zero-length binary frame before ms[n], 0 when
\* there was none.
LastEOS(ms, n) == MaxOf({0} \cup {i \in 1..(n - 1) : IsZeroLength(ms[i])})

\* C15, as claimed: a send that raises leaves partial and final as they
\* were, is caught, and leaves the loop waiting for the next message; the
\* next zero-length binary frame is answered with the text the failed send
\* carried.
FailedSendKeepsState ==
    /\ [][\A c \in Conns :
            (Len(sendLog'[c]) = Len(sendLog[c]) + 1 /\ ~Last(sendLog'[c])) =>
                /\ partial'[c] = partial[c]
                /\ final'[c] = final[c]
                /\ caught'[c] = caught[c] + 1
                /\ pc'[c] = "recv"]_vars
    /\ [](\A c \in Conns :
            LET ms == taken[c]
                le == LastEOS(ms, Len(ms))
            IN  ( /\ pc[c] = "send"
                  /\ le > 0
                  /\ ~Flushed(ms, sendLog[c], le) ) =>
                    EventText(Head(pending[c])) =
                        Str(ExpectedText(ms, sendLog[c], le)))

\* C15, amended: a send that raises assigns neither partial nor final,
\* whether or not the transport wrote the event.  Either the raise is
\* caught and the loop waits for the next message, or it is not an
\* Exception, nothing catches it and the loop is left.  After a caught
\* one, a zero-length binary frame that follows with no audio frame in
\* between is answered with the text the failed send carried.
CaughtSendFailureKeepsState ==
    /\ [][\A c \in Conns :
            (Len(sendLog'[c]) = Len(sendLog[c]) + 1 /\ ~Last(sendLog'[c])) =>
                /\ partial'[c] = partial[c]
                /\ final'[c] = final[c]
                /\ pending'[c] = <<>>
                /\ \/ caught'[c] = caught[c] + 1 /\ pc'[c] = "recv"
                   \/ /\ caught'[c] = caught[c]
                      /\ pc'[c] = "closed"
                      /\ sent'[c] \in
                            {sent[c], Append(sent[c], Head(pending[c]))}]_vars
    /\ [](\A c \in Conns :
            LET ms == taken[c]
                lb == LastBinary(ms, Len(ms))
            IN  ( /\ pc[c] = "send"
                  /\ lb > 0
                  /\ IsZeroLength(ms[lb])
                  /\ ~Flushed(ms, sendLog[c], lb) ) =>
                    /\ caught[c] >= 1
                    /\ EventText(Head(pending[c])) =
                        Str(ExpectedText(ms, sendLog[c], lb)))

\* The send answering a zero-length frame raised after the transport wrote
\* the event and was caught, and the next zero-length frame is being
\* answered with the same non-empty text a second time.
CaughtSendFailureKeepsStateWitness ==
    \E c \in Conns :
        LET ms == taken[c]
            lb == LastBinary(ms, Len(ms))
        IN  /\ pc[c] = "send"
            /\ lb > 0
            /\ IsZeroLength(ms[lb])
            /\ ~Flushed(ms, sendLog[c], lb)
            /\ caught[c] = 1
            /\ sendLog[c] = <<FALSE>>
            /\ wrote[c] = <<TRUE>>
            /\ Len(sent[c]) = 1
            /\ Head(pending[c]) = sent[c][1]
            /\ EventText(Head(pending[c])) # Str("")

\* The recognizer after the chunks of frames were fed to r one by one.
RECURSIVE FedAll(_, _)
FedAll(r, chunks) ==
    IF chunks = <<>> THEN r
    ELSE FedAll(Feed(r, Head(chunks)).rec, Tail(chunks))

\* C16: neither taking a zero-length binary frame nor the end of its send
\* changes any recognizer, so a connection's recognizer is what feeding it
\* every non-empty binary frame taken since the connection started leads
\* to, the frames before earlier flushes included.
FlushLeavesRecognizer ==
    /\ [][\A c \in Conns :
            ( \/ (taken'[c] # taken[c] /\ IsZeroLength(Last(taken'[c])))
              \/ sendLog'[c] # sendLog[c] ) => recs' = recs]_vars
    /\ [](\A c \in Conns : pc[c] # "new" =>
            recs[rec[c]] = FedAll(KaldiRecognizer, AudioOf(taken[c])))

\* After an answered end-of-stream the interim text of the next frame still
\* starts with what was said before it.
FlushLeavesRecognizerWitness ==
    \E c \in Conns :
        LET ms == taken[c]
        IN  /\ Len(ms) = 3
            /\ ms[1] = Bytes(<<"a">>)
            /\ Flushed(ms, sendLog[c], 2)
            /\ ms[3] = Bytes(<<"b">>)
            /\ EventText(sent[c][1]) = Str("a")
            /\ partial[c] = Str("a b")
            /\ final[c] = None

\* C17: a tracked value is None or a non-empty string, never the empty
\* string, so the truthiness tests of the flush hold exactly when the value
\* is set.
TrackedNeverEmptyString ==
    \A c \in Conns :
        /\ partial[c] # Str("")
        /\ final[c] # Str("")
        /\ Truthy(partial[c]) <=> (partial[c] # None)
        /\ Truthy(final[c]) <=> (final[c] # None)

\* The recognizer reported an empty interim text and an empty boundary
\* text, and both values are still unset.
TrackedNeverEmptyStringWitness ==
    \E c \in Conns :
        LET obs == Observed(KaldiRecognizer, taken[c])
        IN  /\ \E i \in 1..Len(obs) : obs[i].kind = "interim" /\ obs[i].text = ""
            /\ \E i \in 1..Len(obs) : obs[i].kind = "final" /\ obs[i].text = ""
            /\ NumEOS(taken[c]) = 0
            /\ partial[c] = None
            /\ final[c] = None

=============================================================================
